---- MODULE Spec2Model ----
EXTENDS Integers, Sequences, FiniteSets, TLC

(***************************************************************************)
(* A model of the TSNE class of msvana/tsne.                               *)
(*                                                                         *)
(* Two revisions of the class are in the repository and both are modelled; *)
(* the variable `variant` says which one an instance is:                   *)
(*   "alloc" : src/src/index.ts     (every matrix is a fresh array)        *)
(*   "reuse" : src/unnamed/part_000 (scratch buffers kept in fields)       *)
(*                                                                         *)
(* Numbers.  JavaScript numbers are IEEE doubles.  The model computes with *)
(* exact rationals [n |-> numerator, d |-> denominator]; a value that does *)
(* not fit a 32-bit integer is NaR ("not a representable rational")  *)
(* and NaR propagates through every operation.  Rounding is not modelled.  *)
(*                                                                         *)
(* Library functions.  Math.exp, Math.log, Math.log2 and Math.pow are not  *)
(* part of the repository.  They are modelled by their results:            *)
(*   - Math.log(maxDistance + 1e-6) + 10 by a table in units of 1e-3;      *)
(*   - the perplexity of a point as a function of sigma (getPerplexity     *)
(*     after getAffinities) by a curve that depends on the distances of    *)
(*     the point, in units of 1e-6;                                        *)
(*   - Math.exp(-d / (2 sigma^2)) when the affinity matrix is built by     *)
(*     2^(-c*d), with the decay c a step function of sigma;                *)
(*   - Math.random() by a generator indexed by a seed.                     *)
(* Sigma and the bounds of its search are integers in units of 1e-3.       *)
(***************************************************************************)

---------------------------------------------------------------------------
(* Bounds of the exploration *)

MaxCalls == 2
MaxIter == 2
MaxDims == 2
MaxSeed == 2

---------------------------------------------------------------------------
(* Numbers: exact rationals with a "not representable" value *)

Abs(a) == IF a < 0 THEN -a ELSE a

RECURSIVE GCD(_, _)
GCD(a, b) == IF b = 0 THEN a ELSE GCD(b, a % b)

NaR == [n |-> 0, d |-> 0]

IsNum(x) == x.d > 0

\* a * b fits a 32-bit integer
Fits(a, b) == a = 0 \/ b = 0 \/ Abs(a) <= 2147483647 \div Abs(b)

Norm(a, b) ==
    LET g == GCD(Abs(a), b)
    IN  [n |-> a \div g, d |-> b \div g]

R(k) == [n |-> k, d |-> 1]

RNeg(x) == IF IsNum(x) THEN [n |-> -x.n, d |-> x.d] ELSE NaR

RAdd(x, y) ==
    IF ~IsNum(x) \/ ~IsNum(y) THEN NaR
    ELSE LET g  == GCD(x.d, y.d)
             dx == x.d \div g
             dy == y.d \div g
         IN  IF Fits(x.n, dy) /\ Fits(y.n, dx) /\ Fits(dx, y.d)
             THEN LET p == x.n * dy
                      q == y.n * dx
                  IN  IF Abs(p) <= 2147483647 - Abs(q)
                      THEN Norm(p + q, dx * y.d)
                      ELSE NaR
             ELSE NaR

RSub(x, y) == RAdd(x, RNeg(y))

RMul(x, y) ==
    IF ~IsNum(x) \/ ~IsNum(y) THEN NaR
    ELSE LET g1 == GCD(Abs(x.n), y.d)
             g2 == GCD(Abs(y.n), x.d)
             a  == x.n \div g1
             b  == y.n \div g2
             c  == x.d \div g2
             e  == y.d \div g1
         IN  IF Fits(a, b) /\ Fits(c, e)
             THEN Norm(a * b, c * e)
             ELSE NaR

\* x / y; a division by zero (Infinity or NaN in JavaScript) is NaR
RDiv(x, y) ==
    IF ~IsNum(x) \/ ~IsNum(y) \/ y.n = 0 THEN NaR
    ELSE RMul(x, [n |-> IF y.n < 0 THEN -y.d ELSE y.d, d |-> Abs(y.n)])

\* x > y; false when either is not a number, as a comparison with NaN is
RGt(x, y) ==
    /\ IsNum(x) /\ IsNum(y)
    /\ Fits(x.n, y.d) /\ Fits(y.n, x.d)
    /\ x.n * y.d > y.n * x.d

RECURSIVE RSum(_)
RSum(s) == IF Len(s) = 0 THEN R(0) ELSE RAdd(RSum(SubSeq(s, 1, Len(s) - 1)), s[Len(s)])

RECURSIVE Pow2(_)
Pow2(e) == IF e = 0 THEN 1 ELSE 2 * Pow2(e - 1)

\* the array whose elements are those of f, every element computed once
Array(f) == SubSeq(f, 1, Len(f))

Zeros(len) == Array([k \in 1..len |-> R(0)])

---------------------------------------------------------------------------
(* JavaScript values handed to transform *)

\* an element of a row: ty is what typeof gives, num tells a finite number
\* from NaN, Infinity and -Infinity
Num(k) == [ty |-> "number", num |-> "finite", v |-> k]
NaN == [ty |-> "number", num |-> "NaN", v |-> 0]
PosInf == [ty |-> "number", num |-> "Infinity", v |-> 0]
NegInf == [ty |-> "number", num |-> "-Infinity", v |-> 0]
Str == [ty |-> "string", num |-> "", v |-> 0]
Undef == [ty |-> "undefined", num |-> "", v |-> 0]

Row(items) == [isArray |-> TRUE, items |-> items]
NotARow == [isArray |-> FALSE, items |-> <<>>]
Arr(rows) == [isArray |-> TRUE, rows |-> rows]
NotAnArray == [isArray |-> FALSE, rows |-> <<>>]

IntRow(s) == Row(Array([k \in 1..Len(s) |-> Num(s[k])]))

FiniteInputs ==
    { Arr(<<IntRow(<<0>>), IntRow(<<1>>)>>),
      Arr(<<IntRow(<<1, 1>>), IntRow(<<1, 1>>)>>),
      Arr(<<IntRow(<<0>>), IntRow(<<1>>), IntRow(<<1>>)>>),
      Arr(<<IntRow(<<0, 0>>), IntRow(<<1, 0>>), IntRow(<<0, 2>>)>>) }

NonFiniteInputs ==
    { Arr(<<IntRow(<<0>>), Row(<<NaN>>)>>),
      Arr(<<Row(<<PosInf, Num(0)>>), IntRow(<<0, 0>>)>>),
      Arr(<<IntRow(<<0>>), IntRow(<<1>>), Row(<<NegInf>>)>>) }

RejectedInputs ==
    { NotAnArray,
      Arr(<<>>),
      Arr(<<IntRow(<<1>>)>>),
      Arr(<<IntRow(<<0, 1>>), IntRow(<<1>>)>>),
      Arr(<<IntRow(<<0>>), Row(<<Str>>)>>),
      Arr(<<IntRow(<<0>>), IntRow(<<1>>), Row(<<Undef>>)>>),
      Arr(<<IntRow(<<0>>), NotARow>>) }

Inputs == FiniteInputs \cup NonFiniteInputs \cup RejectedInputs

\* the inputs of the calls that come before the last call explored
EarlierInputs ==
    { NotAnArray,
      Arr(<<IntRow(<<0>>), IntRow(<<1>>)>>),
      Arr(<<IntRow(<<0>>), IntRow(<<1>>), IntRow(<<1>>)>>) }

---------------------------------------------------------------------------
(* Validator *)

\* a validator that lets an input of fewer than two rows through
validateInputAnyRowCount(X) ==
    IF ~X.isArray THEN "Input must be an array"
    ELSE IF \E i \in 1..Len(X.rows) : ~X.rows[i].isArray
    THEN "Elements of the input array must be arrays"
    ELSE IF \E i \in 1..Len(X.rows) : Len(X.rows[i].items) # Len(X.rows[1].items)
    THEN "Rows must have the same length"
    ELSE IF \E i \in 1..Len(X.rows) : \E k \in 1..Len(X.rows[i].items) :
                X.rows[i].items[k].ty # "number"
    THEN "All items in a a row must be numbers"
    ELSE ""

\* The message of the DataValidationError that #validateInput throws for X,
\* "" when it throws nothing.
validateInput(X) ==
    IF ~X.isArray THEN "Input must be an array"
    ELSE IF Len(X.rows) < 2 THEN "Input must have at least 2 rows"
    ELSE LET bad(i) == \/ ~X.rows[i].isArray
                       \/ Len(X.rows[i].items) # Len(X.rows[1].items)
                       \/ \E k \in 1..Len(X.rows[i].items) :
                             X.rows[i].items[k].ty # "number"
             badRows == {i \in 1..Len(X.rows) : bad(i)}
         IN  IF badRows = {} THEN ""
             ELSE LET i == CHOOSE r \in badRows : \A q \in badRows : r <= q
                  IN  IF ~X.rows[i].isArray
                      THEN "Elements of the input array must be arrays"
                      ELSE IF Len(X.rows[i].items) # Len(X.rows[1].items)
                      THEN "Rows must have the same length"
                      ELSE "All items in a a row must be numbers"

\* every entry of X is a finite number
AllFinite(X) ==
    \A i \in 1..Len(X.rows) : \A k \in 1..Len(X.rows[i].items) :
        X.rows[i].items[k].num = "finite"

\* the rows of a validated finite X as vectors of rationals
Vectors(X) ==
    Array([i \in 1..Len(X.rows) |->
        Array([k \in 1..Len(X.rows[i].items) |-> R(X.rows[i].items[k].v)])])

---------------------------------------------------------------------------
(* Distance engine *)

squaredEuclideanDistance(a, b) ==
    RSum(Array([k \in 1..Len(a) |-> RMul(RSub(a[k], b[k]), RSub(a[k], b[k]))]))

\* index of entry (i, j) of a flat m x m matrix; i and j count from 1
Idx(i, j, m) == (i - 1) * m + j

RowOf(k, m) == ((k - 1) \div m) + 1
ColOf(k, m) == ((k - 1) % m) + 1

Max(a, b) == IF a > b THEN a ELSE b
Min(a, b) == IF a < b THEN a ELSE b

\* a loop that writes entry (i, j) for i <= j and never entry (j, i)
getPairwiseDistancesUpperOnly(V, target) ==
    LET m == Len(V)
    IN  Array([k \in 1..Max(Len(target), m * m) |->
            IF k <= m * m /\ RowOf(k, m) = ColOf(k, m) THEN R(0)
            ELSE IF k <= m * m /\ RowOf(k, m) < ColOf(k, m)
            THEN squaredEuclideanDistance(V[RowOf(k, m)], V[ColOf(k, m)])
            ELSE target[k]])

\* The loop writes entry (i, i) = 0 and, for i < j, the one value
\* squaredEuclideanDistance(V[i], V[j]) to (i, j) and to (j, i); whatever
\* else target holds stays.  (index.ts allocates the target itself.)
getPairwiseDistances(V, target) ==
    LET m == Len(V)
    IN  Array([k \in 1..Max(Len(target), m * m) |->
            IF k <= m * m
            THEN LET i == RowOf(k, m)
                     j == ColOf(k, m)
                 IN  IF i = j THEN R(0)
                     ELSE squaredEuclideanDistance(V[Min(i, j)], V[Max(i, j)])
            ELSE target[k]])

\* distances.slice(i * n, (i + 1) * n), i counted from 1
Slice(buf, i, m) ==
    Array([k \in 1..Max(0, Min(Len(buf), i * m) - (i - 1) * m) |-> buf[(i - 1) * m + k]])

---------------------------------------------------------------------------
(* Perplexity calibrator *)

sigmasMaxIterations == 50

\* 1e-3, in units of 1e-3
initialLowerBound == 1

\* Math.log(m + 1e-6) in units of 1e-3, for an integer m >= 0
RECURSIVE LnMilli(_)
LnMilli(m) ==
    CASE m = 0 -> -13816
      [] m = 1 -> 0
      [] m = 2 -> 693
      [] m = 3 -> 1099
      [] m = 5 -> 1609
      [] m = 7 -> 1946
      [] OTHER -> 693 + LnMilli(m \div 2)

RECURSIVE ReduceMax(_, _)
ReduceMax(s, max) ==
    IF s = <<>> THEN max
    ELSE ReduceMax(Tail(s), IF RGt(Head(s), max) THEN Head(s) ELSE max)

\* in units of 1e-3; the distances of a finite integer input are integers
getInitialSigmaUpperBound(dist) ==
    LET maxDistance == ReduceMax(dist, R(0))
    IN  LnMilli(maxDistance.n \div maxDistance.d) + 10000

\* The perplexity, in units of 1e-6, that getPerplexity(getAffinities(..))
\* gives for point rowNo at sigma s (in units of 1e-3).  The other points
\* share the weight evenly when they are all as far away, so the perplexity
\* is their number; otherwise it grows with sigma from 1 towards their number.
PerplexityAt(pointDistances, s, rowNo) ==
    LET m == Len(pointDistances)
        others == {pointDistances[i] : i \in (1..m) \ {rowNo}}
    IN  IF Cardinality(others) = 1 THEN (m - 1) * 1000000
        ELSE Min((m - 1) * 1000000, 1000000 + 100 * Abs(s))

\* the tolerance of the break, in units of 1e-6: 1e-6 and 1e-3
Tolerance(v) == IF v = "alloc" THEN 1 ELSE 1000

Midpoint(lower, upper) == (upper + lower) \div 2

\* One pass of the inner loop of #findBestSigmas for point rowNo: the
\* midpoint, its perplexity, whether the loop breaks, and the bounds after
\* the pass.
SearchPass(pointDistances, rowNo, lower, upper, v, target) ==
    LET s == Midpoint(lower, upper)
        p == PerplexityAt(pointDistances, s, rowNo)
    IN  [sigma |-> s,
         perplexity |-> p,
         break |-> Abs(p - target) <= Tolerance(v),
         lowerBound |-> IF p < target THEN s ELSE lower,
         upperBound |-> IF p < target THEN upper ELSE s]

\* the inner loop from pass jj on; last is the value of sigma so far
RECURSIVE findBestSigma(_, _, _, _, _, _, _, _)
findBestSigma(pointDistances, rowNo, lower, upper, jj, last, v, target) ==
    IF jj >= sigmasMaxIterations THEN last
    ELSE LET r == SearchPass(pointDistances, rowNo, lower, upper, v, target)
         IN  IF r.break THEN r.sigma
             ELSE findBestSigma(pointDistances, rowNo, r.lowerBound, r.upperBound,
                                jj + 1, r.sigma, v, target)

\* #findBestSigmas: for every point the search from the initial interval
findBestSigmas(dist, m, v, target) ==
    Array([i \in 1..m |->
        findBestSigma(Slice(dist, i, m), i, initialLowerBound,
                      getInitialSigmaUpperBound(dist), 0, 0, v, target)])

---------------------------------------------------------------------------
(* Affinity builder *)

\* the decay c that stands for 1 / (2 * sigma * sigma); s in units of 1e-3
DecayOf(s) == IF Abs(s) >= 5000 THEN 0 ELSE 1

\* Math.exp(-d / (2 * sigma * sigma)) as 2^(-c*d)
Kernel(d, c) ==
    IF IsNum(d) /\ d.d = 1 /\ d.n >= 0 /\ c * d.n <= 30
    THEN [n |-> 1, d |-> Pow2(c * d.n)]
    ELSE NaR

\* one conditional row: self-entry 0, the others Kernel / sum
getAffinities(pointDistances, s, rowNo, m) ==
    LET raw == Array([i \in 1..m |->
                   IF i = rowNo THEN R(0) ELSE Kernel(pointDistances[i], DecayOf(s))])
        sum == RSum(raw)
    IN  Array([i \in 1..m |-> RDiv(raw[i], sum)])

\* the conditional rows (a local of getSymmetricAffinities)
ConditionalRows(dist, sig, m) ==
    Array([i \in 1..m |-> getAffinities(Slice(dist, i, m), sig[i], i, m)])

\* symmetric affinities that divide by 2 and not by 2 * n
getSymmetricAffinitiesHalved(aff, m) ==
    Array([i \in 1..m |-> Array([j \in 1..m |->
        IF i = j THEN R(0)
        ELSE RDiv(RAdd(aff[Min(i, j)][Max(i, j)], aff[Max(i, j)][Min(i, j)]),
                  R(2))])])

\* symmetricAffinities: rows of zeros, then p written to (i, j) and (j, i)
\* for i < j
getSymmetricAffinities(aff, m) ==
    Array([i \in 1..m |-> Array([j \in 1..m |->
        IF i = j THEN R(0)
        ELSE RDiv(RAdd(aff[Min(i, j)][Max(i, j)], aff[Max(i, j)][Min(i, j)]),
                  R(2 * m))])])

---------------------------------------------------------------------------
(* Optimizer *)

\* the state of the generator behind Math.random() after t draws
RECURSIVE Lcg(_, _)
Lcg(seed, t) == IF t = 0 THEN seed % 8 ELSE (5 * Lcg(seed, t - 1) + 3) % 8

\* the t-th value of Math.random() after a seed: 0, 1/4, 1/2 or 3/4
Random(seed, t) == Norm(Lcg(seed, t) \div 2, 4)

\* a projection of one column, whatever nDims is
initRandomProjectionOneColumn(seed, m, nDims) ==
    Array([i \in 1..m |-> <<RSub(Random(seed, i), Norm(1, 2))>>])

initRandomProjection(seed, m, nDims) ==
    Array([i \in 1..m |-> Array([k \in 1..nDims |->
        RSub(Random(seed, (i - 1) * nDims + k), Norm(1, 2))])])

\* 0.5 + ((0.8 - 0.5) * iter) / nIter, iter counted from 0
getMomentum(iter, nIter) == RAdd(Norm(1, 2), RDiv(RMul(Norm(3, 10), R(iter)), R(nIter)))

\* index.ts 265-277: a fresh array of zeros, then 1 / (1 + d) written to
\* (i, j) and (j, i) for i < j
StudentKernel(Yc, m) ==
    Array([k \in 1..(m * m) |->
        IF RowOf(k, m) = ColOf(k, m) THEN R(0)
        ELSE RDiv(R(1), RAdd(R(1),
                 squaredEuclideanDistance(Yc[Min(RowOf(k, m), ColOf(k, m))],
                                          Yc[Max(RowOf(k, m), ColOf(k, m))])))])

\* index.ts 275: sum += 2 * affinity, for i < j
KernelSum(raw, m) ==
    RSum(Array([k \in 1..(m * m) |->
        IF RowOf(k, m) < ColOf(k, m) THEN RMul(R(2), raw[k]) ELSE R(0)]))

\* index.ts 279-283: every entry divided by sum
DividedBy(raw, sum) == Array([k \in 1..Len(raw) |-> RDiv(raw[k], sum)])

Normalized(raw, m) == DividedBy(raw, KernelSum(raw, m))

getProjectedAffinities(Yc, m) == Normalized(StudentKernel(Yc, m), m)

\* part_000: d = 1 / (1 + distances[i*n+j]) written to (i, j) and (j, i) for
\* every i <= j, the diagonal included
invertedDistances(dist, m, target) ==
    Array([k \in 1..Max(Len(target), m * m) |->
        IF k <= m * m
        THEN RDiv(R(1), RAdd(R(1), dist[Idx(Min(RowOf(k, m), ColOf(k, m)),
                                            Max(RowOf(k, m), ColOf(k, m)), m)]))
        ELSE target[k]])

\* a[k] of a JavaScript array: undefined past its end, NaN in arithmetic
At(buf, k) == IF k <= Len(buf) THEN buf[k] ELSE NaR

\* the sum of inv[i] for i < length
BufferSum(inv, length) == RSum(Array([k \in 1..length |-> At(inv, k)]))

\* part_000: sum over the whole length of projectedAffinities, then
\* projectedAffinities[i] = invertedDistancesY[i] / sum
updateProjectedAffinities(Q, inv) ==
    DividedBy(Array([k \in 1..Len(Q) |-> At(inv, k)]), BufferSum(inv, Len(Q)))

\* an accumulation whose inner loop starts at j = i + 1
GradientOfLaterPoints(Yc, m, nDims, coef) ==
    Array([g \in 1..(m * nDims) |->
        RSum(Array([j \in 1..m |->
            IF j <= RowOf(g, nDims) THEN R(0)
            ELSE RMul(RMul(R(4), coef[Idx(RowOf(g, nDims), j, m)]),
                      RSub(Yc[RowOf(g, nDims)][ColOf(g, nDims)], Yc[j][ColOf(g, nDims)]))]))])

\* gradient[i*nDims+k] = sum over j of 4 * coef[i*n+j] * (Y[i][k] - Y[j][k])
GradientOf(Yc, m, nDims, coef) ==
    Array([g \in 1..(m * nDims) |->
        RSum(Array([j \in 1..m |->
            RMul(RMul(R(4), coef[Idx(RowOf(g, nDims), j, m)]),
                 RSub(Yc[RowOf(g, nDims)][ColOf(g, nDims)], Yc[j][ColOf(g, nDims)]))]))])

\* index.ts 213-214: coef for every pair (i, j)
Coefficients(Yc, m, P, Q) ==
    Array([g \in 1..(m * m) |->
        RMul(RSub(P[RowOf(g, m)][ColOf(g, m)], Q[g]),
             RDiv(R(1), RAdd(R(1), squaredEuclideanDistance(
                 Yc[RowOf(g, m)], Yc[ColOf(g, m)]))))])

\* index.ts 209-222, once projectedAffinities is there
getGradientFrom(Yc, m, nDims, P, Q) ==
    [distancesY |-> <<>>, invertedDistancesY |-> <<>>,
     projectedAffinities |-> Q,
     gradient |-> GradientOf(Yc, m, nDims, Coefficients(Yc, m, P, Q))]

\* index.ts #getGradient: the arrays it makes and the gradient
getGradient(Yc, m, nDims, P) ==
    getGradientFrom(Yc, m, nDims, P, getProjectedAffinities(Yc, m))

\* part_000 224-226: coef for every idx
BufferCoefficients(m, P, Q, inv) ==
    Array([g \in 1..(m * m) |->
        RMul(RSub(P[RowOf(g, m)][ColOf(g, m)], At(Q, g)), At(inv, g))])

\* part_000 217-232, once the three buffers are written
updateGradientFrom(Yc, m, nDims, P, dY, inv, Q) ==
    [distancesY |-> dY, invertedDistancesY |-> inv,
     projectedAffinities |-> Q,
     gradient |-> GradientOf(Yc, m, nDims, BufferCoefficients(m, P, Q, inv))]

\* part_000 216
updateGradientAfterInverted(Yc, m, nDims, P, bufs, dY, inv) ==
    updateGradientFrom(Yc, m, nDims, P, dY, inv,
                       updateProjectedAffinities(bufs.projectedAffinities, inv))

\* part_000 215
updateGradientAfterDistances(Yc, m, nDims, P, bufs, dY) ==
    updateGradientAfterInverted(Yc, m, nDims, P, bufs, dY,
                                invertedDistances(dY, m, bufs.invertedDistancesY))

\* part_000 #updateGradient: the four buffers after the call
updateGradient(Yc, m, nDims, P, bufs) ==
    updateGradientAfterDistances(Yc, m, nDims, P, bufs,
                                 getPairwiseDistances(Yc, bufs.distancesY))

\* Y[j][k] - gradient[j*nDims+k] * learningRate + (Y[j][k] - YPrev[j][k]) * momentum
NewCoordinate(y, yPrev, g, lr, momentum) ==
    RAdd(RSub(y, RMul(g, lr)), RMul(RSub(y, yPrev), momentum))

\* index.ts 58-59: YPrev = Y and Y = YNew
Swapped(old, new) == [Y |-> new, YPrev |-> old, YNew |-> new]

\* index.ts, lines 46-59: a new YNew filled from Y, YPrev and the
\* gradient, then YPrev = Y and Y = YNew
SwapUpdate(st, grad, lr, momentum, m, nDims) ==
    Swapped(st.Y, Array([j \in 1..m |-> Array([k \in 1..nDims |->
                NewCoordinate(st.Y[j][k], st.YPrev[j][k],
                              grad[Idx(j, k, nDims)], lr, momentum)])]))

\* part_000 62-68: yn written to YNew[j][k] and Y[j][k], the old Y[j][k] to
\* YPrev[j][k]
WriteElement(s0, j, k, yn) ==
    [Y     |-> [s0.Y EXCEPT ![j][k] = yn],
     YPrev |-> [s0.YPrev EXCEPT ![j][k] = s0.Y[j][k]],
     YNew  |-> [s0.YNew EXCEPT ![j][k] = yn]]

\* part_000 62-68 for element (j, k)
UpdateElement(s0, g, lr, momentum, j, k) ==
    WriteElement(s0, j, k, NewCoordinate(s0.Y[j][k], s0.YPrev[j][k], g, lr, momentum))

\* part_000, lines 60-70: element e = (j, k) of YNew, YPrev and Y is
\* rewritten in place, one element after the other
RECURSIVE InPlaceUpdate(_, _, _, _, _, _)
InPlaceUpdate(st, grad, lr, momentum, nDims, e) ==
    IF e = 0 THEN st
    ELSE UpdateElement(InPlaceUpdate(st, grad, lr, momentum, nDims, e - 1),
                       grad[e], lr, momentum, RowOf(e, nDims), ColOf(e, nDims))

\* the update of Y of one pass
UpdateY(v, m, cfg, st, grad, momentum) ==
    IF v = "alloc"
    THEN SwapUpdate(st, grad, cfg.learningRate, momentum, m, cfg.nDims)
    ELSE InPlaceUpdate(st, grad, cfg.learningRate, momentum, cfg.nDims, m * cfg.nDims)

\* the locals and the buffers after a pass
AfterPass(ys, g) ==
    [Y |-> ys.Y, YPrev |-> ys.YPrev, YNew |-> ys.YNew,
     distancesY |-> g.distancesY,
     invertedDistancesY |-> g.invertedDistancesY,
     projectedAffinities |-> g.projectedAffinities,
     gradient |-> g.gradient]

\* a pass, once the gradient g is there
OptimizerStepFrom(v, m, cfg, st, g, i) ==
    AfterPass(UpdateY(v, m, cfg, st, g.gradient, getMomentum(i, cfg.nIter)), g)

\* One pass of the loop body of transform.  st holds Y, YPrev, YNew and the
\* four arrays of the gradient computation.
OptimizerStep(v, m, cfg, P, st, i) ==
    OptimizerStepFrom(v, m, cfg, st,
                      IF v = "alloc"
                      THEN getGradient(st.Y, m, cfg.nDims, P)
                      ELSE updateGradient(st.Y, m, cfg.nDims, P, st),
                      i)

\* a buffer that is made once and kept by the calls that follow
AllocateOnce(field, len) == IF field = <<>> THEN Zeros(len) ELSE field

\* this.#field = new Array(len).fill(0)
Allocate(field, len) == Zeros(len)

\* new Array(len): every entry is a hole, NaN in arithmetic
Holes(len) == Array([k \in 1..len |-> NaR])

\* the passes i, i + 1, ... of the loop of transform
RECURSIVE OptimizerLoop(_, _, _, _, _, _)
OptimizerLoop(v, m, cfg, P, st, i) ==
    IF i < cfg.nIter
    THEN OptimizerLoop(v, m, cfg, P, OptimizerStep(v, m, cfg, P, st, i), i + 1)
    ELSE st

\* the locals and the buffers of transform when the loop begins, on an
\* instance that has just been constructed
FreshLoopState(v, m, cfg, y0) ==
    IF v = "alloc"
    THEN [Y |-> y0, YPrev |-> y0, YNew |-> <<>>,
          distancesY |-> <<>>, invertedDistancesY |-> <<>>,
          projectedAffinities |-> <<>>, gradient |-> <<>>]
    ELSE [Y |-> y0, YPrev |-> y0, YNew |-> y0,
          distancesY |-> Allocate(<<>>, m * m),
          invertedDistancesY |-> Allocate(<<>>, m * m),
          projectedAffinities |-> Allocate(<<>>, m * m),
          gradient |-> Holes(m * cfg.nDims)]

\* the fields after the call and the matrix returned
FreshResult(m, dist, sig, P, end) ==
    [n |-> m, distances |-> dist, sigmas |-> sig, affinities |-> P,
     distancesY |-> end.distancesY,
     invertedDistancesY |-> end.invertedDistancesY,
     projectedAffinities |-> end.projectedAffinities,
     gradient |-> end.gradient,
     result |-> end.Y]

FreshAfterAffinities(v, m, cfg, y0, dist, sig, P) ==
    FreshResult(m, dist, sig, P,
                OptimizerLoop(v, m, cfg, P, FreshLoopState(v, m, cfg, y0), 0))

FreshAfterSigmas(v, m, cfg, y0, dist, sig) ==
    FreshAfterAffinities(v, m, cfg, y0, dist, sig,
                         getSymmetricAffinities(ConditionalRows(dist, sig, m), m))

FreshAfterDistances(v, m, cfg, y0, dist) ==
    FreshAfterSigmas(v, m, cfg, y0, dist, findBestSigmas(dist, m, v, cfg.perplexity))

\* transform(in) on an instance that has just been constructed, with y0 for
\* what #initRandomProjection returns: the fields after the call and the
\* matrix returned
FreshTransform(v, cfg, in, y0) ==
    FreshAfterDistances(v, Len(in.rows), cfg, y0,
        getPairwiseDistances(Vectors(in),
            IF v = "alloc" THEN Holes(Len(in.rows) * Len(in.rows))
            ELSE Allocate(<<>>, Len(in.rows) * Len(in.rows))))

---------------------------------------------------------------------------
(* State *)

VARIABLES
    variant,              \* which revision of the class the instance is
    config,               \* #config
    pc,                   \* where the instance is
    calls,                \* transform calls made so far
    earlierCalls,         \* how each call before the current one ended, and
                          \* the number of rows of its argument
    X,                    \* the argument of the current call
    error,                \* message of the DataValidationError thrown, or ""
    n,                    \* #n (0: undefined)
    distances,            \* #distances (<<>>: undefined)
    sigmas,               \* #sigmas
    affinities,           \* #affinities
    distancesY,           \* #distancesY            (part_000 only)
    invertedDistancesY,   \* #invertedDistancesY    (part_000 only)
    projectedAffinities,  \* #projectedAffinities   (a local in index.ts)
    gradient,             \* #gradient              (a local in index.ts)
    initialUpperBound,    \* locals of #findBestSigmas
    sigmasOut,
    pt,
    j,
    lowerBound,
    upperBound,
    sigma,
    perplexity,
    cond,                 \* local affinities of #getSymmetricAffinities
    Y,                    \* locals of transform
    YPrev,
    YNew,
    iter,
    Y0,                   \* what #initRandomProjection returned
    updates,              \* passes of the loop body made in this call
    result                \* what the call returned

fields == <<n, distances, sigmas, affinities, distancesY, invertedDistancesY,
            projectedAffinities, gradient>>

searchLocals == <<initialUpperBound, sigmasOut, pt, j, lowerBound, upperBound,
                  sigma, perplexity>>

loopLocals == <<Y, YPrev, YNew, iter, Y0, updates>>

vars == <<variant, config, pc, calls, earlierCalls, X, error, fields, searchLocals, cond,
          loopLocals, result>>

Configs ==
    [nDims : 1..MaxDims, nIter : 0..MaxIter, learningRate : {R(1)},
     perplexity : {1000000, 1500000}]

Init ==
    /\ variant \in {"alloc", "reuse"}
    /\ config \in Configs
    /\ pc = "idle"
    /\ calls = 0
    /\ earlierCalls = <<>>
    /\ X = NotAnArray
    /\ error = ""
    /\ n = 0
    /\ distances = <<>>
    /\ sigmas = <<>>
    /\ affinities = <<>>
    /\ distancesY = <<>>
    /\ invertedDistancesY = <<>>
    /\ projectedAffinities = <<>>
    /\ gradient = <<>>
    /\ initialUpperBound = 0
    /\ sigmasOut = <<>>
    /\ pt = 0
    /\ j = 0
    /\ lowerBound = 0
    /\ upperBound = 0
    /\ sigma = 0
    /\ perplexity = 0
    /\ cond = <<>>
    /\ Y = <<>>
    /\ YPrev = <<>>
    /\ YNew = <<>>
    /\ iter = 0
    /\ Y0 = <<>>
    /\ updates = 0
    /\ result = <<>>

\* the locals of a call that is over
ClearSearchLocals ==
    /\ initialUpperBound' = 0
    /\ sigmasOut' = <<>>
    /\ pt' = 0
    /\ j' = 0
    /\ lowerBound' = 0
    /\ upperBound' = 0
    /\ sigma' = 0
    /\ perplexity' = 0

ClearLoopLocals ==
    /\ Y' = <<>>
    /\ YPrev' = <<>>
    /\ YNew' = <<>>
    /\ iter' = 0
    /\ Y0' = <<>>
    /\ updates' = 0

\* What the calls before the last one explored draw from, and what the last
\* one draws from.
IsLastCall == calls = MaxCalls
InputsOf(c) == IF c = MaxCalls THEN Inputs ELSE EarlierInputs
SeedsNow == IF IsLastCall THEN 1..MaxSeed ELSE {1}

---------------------------------------------------------------------------
(* transform *)

\* index.ts 29-33, part_000 36-42: validation, #n, #distances and the first
\* lines of #findBestSigmas
TransformCall ==
    /\ pc \in {"idle", "returned", "threw", "nonfinite"}
    /\ calls < MaxCalls
    /\ \E in \in InputsOf(calls + 1) :
        /\ X' = in
        /\ calls' = calls + 1
        /\ earlierCalls' = IF calls = 0 THEN <<>>
                           ELSE Append(earlierCalls, <<pc, Len(X.rows)>>)
        /\ error' = validateInput(in)
        /\ result' = <<>>
        /\ cond' = <<>>
        /\ ClearLoopLocals
        /\ IF validateInput(in) # ""
           THEN /\ pc' = "threw"
                /\ ClearSearchLocals
                /\ UNCHANGED fields
           ELSE IF ~AllFinite(in)
           THEN \* arithmetic on NaN and Infinity is not followed
                /\ pc' = "nonfinite"
                /\ n' = Len(in.rows)
                /\ ClearSearchLocals
                /\ UNCHANGED <<distances, sigmas, affinities, distancesY,
                               invertedDistancesY, projectedAffinities, gradient>>
           ELSE /\ pc' = "sigmaBegin"
                /\ n' = Len(in.rows)
                /\ distances' = getPairwiseDistances(Vectors(in),
                        IF variant = "alloc"
                        THEN Holes(Len(in.rows) * Len(in.rows))
                        ELSE Allocate(distances, Len(in.rows) * Len(in.rows)))
                /\ initialUpperBound' = getInitialSigmaUpperBound(distances')
                /\ sigmasOut' = <<>>
                /\ pt' = 1
                /\ j' = 0
                /\ lowerBound' = 0
                /\ upperBound' = 0
                /\ sigma' = 0
                /\ perplexity' = 0
                            /\ UNCHANGED <<sigmas, affinities, distancesY,
                               invertedDistancesY, projectedAffinities, gradient>>
    /\ UNCHANGED <<variant, config>>

\* index.ts 132-134: the bounds of point pt are set again
BeginPoint ==
    /\ pc = "sigmaBegin"
    /\ lowerBound' = initialLowerBound
    /\ upperBound' = initialUpperBound
    /\ j' = 0
    /\ pc' = "sigmaSearch"
    /\ UNCHANGED <<variant, config, calls, earlierCalls, X, error, fields, initialUpperBound,
                   sigmasOut, pt, sigma, perplexity, cond, loopLocals, result>>

\* index.ts 136-150: one pass of the inner loop
SearchStep ==
    /\ pc = "sigmaSearch"
    /\ j < sigmasMaxIterations
    /\ LET r == SearchPass(Slice(distances, pt, n), pt, lowerBound, upperBound,
                           variant, config.perplexity)
       IN  /\ sigma' = r.sigma
           /\ perplexity' = r.perplexity
           /\ IF r.break
              THEN /\ pc' = "sigmaRecord"
                   /\ UNCHANGED <<j, lowerBound, upperBound>>
              ELSE /\ lowerBound' = r.lowerBound
                   /\ upperBound' = r.upperBound
                   /\ j' = j + 1
                   /\ pc' = IF j + 1 < sigmasMaxIterations
                            THEN "sigmaSearch" ELSE "sigmaRecord"
    /\ UNCHANGED <<variant, config, calls, earlierCalls, X, error, fields, initialUpperBound,
                   sigmasOut, pt, cond, loopLocals, result>>

\* the lower bound of the interval, not the midpoint
RecordedLowerBound == lowerBound

\* what sigmas[i] = sigma stores
RecordedSigma == sigma

\* index.ts 152, and 33 after the last point
RecordSigma ==
    /\ pc = "sigmaRecord"
    /\ sigmasOut' = Append(sigmasOut, RecordedSigma)
    /\ IF pt < n
       THEN /\ pt' = pt + 1
            /\ pc' = "sigmaBegin"
            /\ UNCHANGED sigmas
       ELSE /\ pt' = pt
            /\ pc' = "affinities"
            /\ sigmas' = sigmasOut'
    /\ UNCHANGED <<variant, config, calls, earlierCalls, X, error, n, distances, affinities,
                   distancesY, invertedDistancesY, projectedAffinities, gradient,
                   initialUpperBound, j, lowerBound, upperBound, sigma,
                   perplexity, cond, loopLocals, result>>

\* index.ts 34, part_000 44
SymmetricAffinities ==
    /\ pc = "affinities"
    /\ cond' = ConditionalRows(distances, sigmas, n)
    /\ affinities' = getSymmetricAffinities(cond', n)
    /\ pc' = "init"
    /\ UNCHANGED <<variant, config, calls, earlierCalls, X, error, n, distances, sigmas,
                   distancesY, invertedDistancesY, projectedAffinities, gradient,
                   searchLocals, loopLocals, result>>

\* index.ts 39-41, part_000 45-54
InitProjection ==
    /\ pc = "init"
    /\ \E seed \in SeedsNow :
        Y0' = initRandomProjection(seed, n, config.nDims)
    /\ Y' = Y0'
    /\ YPrev' = Y0'
    /\ YNew' = IF variant = "alloc" THEN <<>> ELSE Y0'
    /\ iter' = 0
    /\ updates' = 0
    /\ IF variant = "alloc"
       THEN /\ projectedAffinities' = <<>>
            /\ gradient' = <<>>
            /\ UNCHANGED <<distancesY, invertedDistancesY>>
       ELSE /\ distancesY' = Allocate(distancesY, n * n)
            /\ invertedDistancesY' = Allocate(invertedDistancesY, n * n)
            /\ projectedAffinities' = Allocate(projectedAffinities, n * n)
            /\ gradient' = Holes(n * config.nDims)
    /\ pc' = "loop"
    /\ UNCHANGED <<variant, config, calls, earlierCalls, X, error, n, distances, sigmas,
                   affinities, searchLocals, cond, result>>

LoopState ==
    [Y |-> Y, YPrev |-> YPrev, YNew |-> YNew, distancesY |-> distancesY,
     invertedDistancesY |-> invertedDistancesY,
     projectedAffinities |-> projectedAffinities, gradient |-> gradient]

\* a loop that makes one pass more
LoopRunsOnceMore(i) == i <= config.nIter

\* the loop condition i < nIter
LoopRuns(i) == i < config.nIter

\* index.ts 43-60, part_000 56-71: one pass of the loop body
Iterate ==
    /\ pc = "loop"
    /\ LoopRuns(iter)
    /\ \E st \in {OptimizerStep(variant, n, config, affinities, LoopState, iter)} :
           /\ Y' = st.Y
           /\ YPrev' = st.YPrev
           /\ YNew' = st.YNew
           /\ distancesY' = st.distancesY
           /\ invertedDistancesY' = st.invertedDistancesY
           /\ projectedAffinities' = st.projectedAffinities
           /\ gradient' = st.gradient
    /\ iter' = iter + 1
    /\ updates' = updates + 1
    /\ UNCHANGED <<variant, config, pc, calls, earlierCalls, X, error, n, distances, sigmas,
                   affinities, searchLocals, cond, Y0, result>>

\* index.ts 62
Return ==
    /\ pc = "loop"
    /\ ~LoopRuns(iter)
    /\ result' = Y
    /\ pc' = "returned"
    /\ UNCHANGED <<variant, config, calls, earlierCalls, X, error, fields, searchLocals, cond,
                   loopLocals>>

Step ==
    \/ BeginPoint
    \/ SearchStep
    \/ RecordSigma
    \/ SymmetricAffinities
    \/ InitProjection
    \/ Iterate
    \/ Return

Next == TransformCall \/ Step

Spec == Init /\ [][Next]_vars

\* the call is past the validator and has not returned
Running == pc \in {"sigmaBegin", "sigmaSearch", "sigmaRecord", "affinities",
                   "init", "loop"}

\* transform is synchronous: once called it runs on.  This is the weak
\* fairness of Step written out, []<>~ENABLED <<Step>>_vars \/ []<><<Step>>_vars,
\* with Running for ENABLED <<Step>>_vars: in each of the six places one
\* action of Step is enabled and changes pc, j, pt or iter.
FairSpec == Spec /\ ([]<>~Running \/ []<><<Step>>_vars)

---------------------------------------------------------------------------
(* Properties *)

\* the four kinds of input the validator is specified to reject
IsNotArray(in) == ~in.isArray
HasTooFewRows(in) == in.isArray /\ Len(in.rows) <= 1
IsRagged(in) ==
    /\ in.isArray
    /\ \E i \in 1..Len(in.rows) :
          /\ in.rows[1].isArray /\ in.rows[i].isArray
          /\ Len(in.rows[i].items) # Len(in.rows[1].items)
HasNonNumber(in) ==
    /\ in.isArray
    /\ \E i \in 1..Len(in.rows) :
          /\ in.rows[i].isArray
          /\ \E k \in 1..Len(in.rows[i].items) : in.rows[i].items[k].ty # "number"
MustReject(in) ==
    IsNotArray(in) \/ HasTooFewRows(in) \/ IsRagged(in) \/ HasNonNumber(in)

\* C1: a call of transform whose argument is not an array, has 0 or 1 rows,
\* has a row of another length than row 0, or has an entry that is not a
\* number, throws the DataValidationError, and a call that throws leaves
\* every field of the instance (#n, #distances, #sigmas, #affinities and the
\* scratch buffers) as it was.
C1_RejectedCallThrowsAndLeavesFields ==
    [][calls' = calls + 1 =>
          /\ MustReject(X') => pc' = "threw" /\ error' # ""
          /\ pc' = "threw" => fields' = fields]_vars

\* C1: a call is rejected on an instance whose fields an earlier call set
C1_RejectedAfterSuccess ==
    /\ pc = "threw"
    /\ IsRagged(X)
    /\ n = 3
    /\ Len(distances) = 9
    /\ Len(sigmas) = 3
    /\ Len(affinities) = 3

\* an entry that typeof calls a number and that is NaN, Infinity or -Infinity
HasNonFinite(in) ==
    /\ in.isArray
    /\ \E i \in 1..Len(in.rows) :
          /\ in.rows[i].isArray
          /\ \E k \in 1..Len(in.rows[i].items) :
                /\ in.rows[i].items[k].ty = "number"
                /\ in.rows[i].items[k].num # "finite"

\* C2: a call whose argument has rows of equal length and an entry that is
\* NaN, Infinity or -Infinity throws the DataValidationError: the call does
\* not get past the validator.
C2_NonFiniteEntryThrows ==
    (calls > 0 /\ ~MustReject(X) /\ HasNonFinite(X)) => pc = "threw"

\* C2: the validator has let an argument with a non-finite entry through
C2_NonFiniteEntryAccepted ==
    /\ pc = "nonfinite"
    /\ HasNonFinite(X)
    /\ error = ""
    /\ n = Len(X.rows)

\* m rows of k entries each
HasShape(M, m, k) == Len(M) = m /\ \A i \in 1..m : Len(M[i]) = k

\* C3: for an argument that passed validation, the matrix that transform
\* returns has as many rows as X and nDims entries in every row, and so has
\* Y when it is initialized and after every pass of the loop, nIter = 0
\* included.
C3_OutputShape ==
    /\ pc = "loop" => HasShape(Y, Len(X.rows), config.nDims)
    /\ pc = "returned" => HasShape(result, Len(X.rows), config.nDims)

\* C3: a call returned three rows of two entries without a pass of the loop
C3_ReturnedWithoutIterations ==
    /\ pc = "returned"
    /\ config.nIter = 0
    /\ config.nDims = 2
    /\ Len(X.rows) = 3
    /\ HasShape(result, 3, 2)

\* C4: a call that passed validation returns, and when it returns the loop
\* body has run nIter times, no fewer and no more, whatever the gradient
\* was; what is returned is Y after the last pass.
C4_TerminatesAfterNIterUpdates ==
    /\ [](pc = "loop" => updates = iter /\ updates <= config.nIter)
    /\ [](pc = "returned" => updates = config.nIter /\ result = Y)
    /\ (Running ~> pc = "returned")

\* C4: a call returned after two passes whose gradient was not a number
C4_ReturnedAfterTwoUpdates ==
    /\ pc = "returned"
    /\ config.nIter = 2
    /\ updates = 2
    /\ Len(X.rows) = 3
    /\ \E g \in 1..Len(result) : ~IsNum(result[g][1])

\* every entry of the vector is a number
IsNumVector(a) == \A k \in 1..Len(a) : IsNum(a[k])

\* D is the flat matrix of the squared distances of the vectors V; an entry
\* is compared with the distance where both vectors are vectors of numbers
IsDistanceMatrix(D, V) ==
    /\ Len(D) = Len(V) * Len(V)
    /\ \A i \in 1..Len(V) : \A k \in 1..Len(V) :
          /\ (IsNumVector(V[i]) /\ IsNumVector(V[k]))
                => D[Idx(i, k, Len(V))] = squaredEuclideanDistance(V[i], V[k])
          /\ D[Idx(i, k, Len(V))] = D[Idx(k, i, Len(V))]
          /\ squaredEuclideanDistance(V[i], V[k]) = squaredEuclideanDistance(V[k], V[i])
    /\ \A i \in 1..Len(V) :
          /\ D[Idx(i, i, Len(V))] = R(0)
          /\ IsNumVector(V[i]) => squaredEuclideanDistance(V[i], V[i]) = R(0)

MatrixSum(M) == RSum(Array([i \in 1..Len(M) |-> RSum(M[i])]))

\* every conditional row has self-entry 0 and sums to 1
ConditionalRowsNormalized(rows) ==
    \A i \in 1..Len(rows) : rows[i][i] = R(0) /\ RSum(rows[i]) = R(1)

\* C6: when every conditional row has self-entry 0 and sums to 1, the
\* matrix P that #getSymmetricAffinities builds from them is symmetric, has
\* a zero diagonal, has p_ij = (p_j|i + p_i|j) / (2N) for i # j, and its
\* entries sum to 1.
C6_SymmetricAffinities ==
    (pc \in {"init", "loop", "returned"} /\ ConditionalRowsNormalized(cond)) =>
        /\ HasShape(affinities, n, n)
        /\ \A i \in 1..n : \A k \in 1..n :
              /\ affinities[i][k] = affinities[k][i]
              /\ i = k => affinities[i][k] = R(0)
              /\ i # k => affinities[i][k] =
                             RDiv(RAdd(cond[i][k], cond[k][i]), R(2 * n))
        /\ MatrixSum(affinities) = R(1)

\* C6: P was built for three points from conditional rows that are not all
\* the same
C6_ThreePointsUnevenRows ==
    /\ pc = "init"
    /\ n = 3
    /\ ConditionalRowsNormalized(cond)
    /\ cond[1][2] # cond[1][3]
    /\ affinities[1][2] # affinities[1][3]
    /\ MatrixSum(affinities) = R(1)

\* 1 / (1 + d_ij) for the embedding E
StudentT(E, i, k) == RDiv(R(1), RAdd(R(1), squaredEuclideanDistance(E[i], E[k])))

\* the sum of 1 / (1 + d_ab) over the pairs a # b
OffDiagonalSum(E) ==
    RSum(Array([g \in 1..(Len(E) * Len(E)) |->
        IF RowOf(g, Len(E)) = ColOf(g, Len(E)) THEN R(0)
        ELSE StudentT(E, RowOf(g, Len(E)), ColOf(g, Len(E)))]))

\* Q is the matrix of the low-dimensional affinities of the embedding E
IsProjectedAffinities(Q, E) ==
    /\ Len(Q) = Len(E) * Len(E)
    /\ \A i \in 1..Len(E) : \A k \in 1..Len(E) :
          /\ i = k => Q[Idx(i, k, Len(E))] = R(0)
          /\ i # k => Q[Idx(i, k, Len(E))] = RDiv(StudentT(E, i, k), OffDiagonalSum(E))
    /\ RSum(Q) = R(1)

\* C7: in every pass of the loop, in both revisions, the matrix Q computed
\* from the embedding the pass starts from has q_ii = 0, has
\* q_ij = (1 / (1 + d_ij)) / S for i # j with S the sum over the pairs
\* a # b only, and sums to 1.  (Stated where the numbers are representable.)
C7_ProjectedAffinities ==
    (/\ pc \in {"loop", "returned"}
     /\ updates >= 1
     /\ \A i \in 1..Len(YPrev) : IsNumVector(YPrev[i])
     /\ IsNumVector(projectedAffinities))
        => IsProjectedAffinities(projectedAffinities, YPrev)

\* C7: in part_000 the diagonal of Q is not 0 after a pass
C7_DiagonalNotZero ==
    /\ variant = "reuse"
    /\ pc = "loop"
    /\ updates = 1
    /\ n = 2
    /\ IsNumVector(projectedAffinities)
    /\ projectedAffinities[Idx(1, 1, n)] # R(0)
    /\ RSum(projectedAffinities) = R(1)

\* the search of the point recorded last is over and its locals still stand
SearchJustEnded == pc \in {"sigmaBegin", "affinities"} /\ Len(sigmasOut) >= 1

WithinTolerance == Abs(perplexity - config.perplexity) <= Tolerance(variant)

\* C8: when the search of a point ends, the sigma recorded for it is the
\* last midpoint evaluated (the one the last perplexity was computed at), and
\* that perplexity is within the tolerance of the target or the search made
\* all 50 passes; no search makes more than 50 passes; and the search of
\* every point starts from the initial interval, whatever the searches of
\* the points before it did.
C8_SigmaSearch ==
    /\ j <= sigmasMaxIterations
    /\ SearchJustEnded =>
          /\ sigmasOut[Len(sigmasOut)] = sigma
          /\ perplexity = PerplexityAt(Slice(distances, Len(sigmasOut), n),
                                       sigmasOut[Len(sigmasOut)], Len(sigmasOut))
          /\ WithinTolerance \/ j = sigmasMaxIterations
    /\ (pc = "sigmaSearch" /\ j = 0) =>
          /\ lowerBound = initialLowerBound
          /\ upperBound = initialUpperBound
          /\ initialUpperBound = getInitialSigmaUpperBound(distances)
    /\ pc = "affinities" => sigmas = sigmasOut /\ Len(sigmas) = n

\* C8: the search of the second point ended within the tolerance after some
\* passes, after the search of the first point had made all 50
C8_EndedWithinToleranceAfterFullSearch ==
    /\ pc = "sigmaBegin"
    /\ Len(sigmasOut) = 2
    /\ 0 < j /\ j < sigmasMaxIterations
    /\ WithinTolerance
    /\ sigmasOut[1] # sigmasOut[2]
    /\ ~(Abs(PerplexityAt(Slice(distances, 1, n), sigmasOut[1], 1) - config.perplexity)
            <= Tolerance(variant))

\* C10: whatever calls were made on the instance before (returned or
\* rejected, with any number of rows), a call that starts from the initial
\* embedding Y0 returns what transform returns on an instance just
\* constructed with the same configuration, and leaves every field
\* (distances, sigmas, P, embedding distances, inverted distances, Q,
\* gradient) as that instance would have it: nothing of an earlier call is
\* read.
C10_NoStateAcrossCalls ==
    [][(pc = "loop" /\ pc' = "returned") =>
          \A fresh \in {FreshTransform(variant, config, X, Y0)} :
              /\ result' = fresh.result
              /\ n' = fresh.n
              /\ distances' = fresh.distances
              /\ sigmas' = fresh.sigmas
              /\ affinities' = fresh.affinities
              /\ distancesY' = fresh.distancesY
              /\ invertedDistancesY' = fresh.invertedDistancesY
              /\ projectedAffinities' = fresh.projectedAffinities
              /\ gradient' = fresh.gradient]_vars

\* C10: a call on two points returned, after two passes over buffers, on an
\* instance whose earlier call had returned for three points
C10_ReturnedAfterCallOfOtherSize ==
    /\ pc = "returned"
    /\ variant = "reuse"
    /\ earlierCalls = << <<"returned", 3>> >>
    /\ n = 2
    /\ config.nIter = 2
    /\ Len(projectedAffinities) = 4
    /\ \A i \in 1..Len(result) : IsNumVector(result[i])

\* 0.5 + 0.3 * i / nIter
MomentumAt(i, nIter) == RAdd(Norm(1, 2), RDiv(RMul(Norm(3, 10), R(i)), R(nIter)))

\* Y[j,k] - learningRate * grad[j,k] + momentum * (Y[j,k] - Y_prev[j,k])
UpdatedCoordinate(y, yPrev, g, lr, momentum) ==
    RAdd(RSub(y, RMul(lr, g)), RMul(momentum, RSub(y, yPrev)))

\* the gradient the revision v computes from the whole embedding held by st
GradientFromWhole(v, m, cfg, P, st) ==
    IF v = "alloc" THEN getGradient(st.Y, m, cfg.nDims, P).gradient
    ELSE updateGradient(st.Y, m, cfg.nDims, P, st).gradient

\* the state after the passes i, ..., last - 1 of the loop of revision v
RECURSIVE PassesOf(_, _, _, _, _, _, _)
PassesOf(v, m, cfg, P, st, i, last) ==
    IF i < last
    THEN PassesOf(v, m, cfg, P, OptimizerStep(v, m, cfg, P, st, i), i + 1, last)
    ELSE st

\* the pass just made is pass number updates of the loop
PassMade == pc = "loop" /\ updates' = updates + 1

\* C11, the update alone: in pass i every Y_new[j,k] is Y[j,k] -
\* learningRate * grad[j,k] + momentum(i) * (Y[j,k] - Y_prev[j,k]) with
\* momentum(i) = 0.5 + 0.3 * i / nIter and grad computed from the whole Y of
\* before the pass; after the pass Y_prev is that Y and Y is Y_new; before
\* pass 0 Y_prev and Y are the initial embedding.
C11_UpdateOfOnePass ==
    [][PassMade =>
          /\ updates = iter
          /\ updates = 0 => (Y = Y0 /\ YPrev = Y0)
          /\ gradient' = GradientFromWhole(variant, n, config, affinities, LoopState)
          /\ Len(Y') = n
          /\ \A a \in 1..n :
                /\ Len(Y'[a]) = config.nDims
                /\ \A k \in 1..config.nDims :
                      Y'[a][k] = UpdatedCoordinate(Y[a][k], YPrev[a][k],
                                                   gradient'[Idx(a, k, config.nDims)],
                                                   config.learningRate,
                                                   MomentumAt(updates, config.nIter))
          /\ YPrev' = Y
          /\ YNew' = Y']_vars

\* C11: the update of one pass is as above, and the revision that updates
\* Y, Y_prev and Y_new element by element in place goes through the same
\* sequence of (Y, Y_prev) as the revision that allocates Y_new and swaps:
\* after every pass, (Y, Y_prev) is what the passes of either revision make
\* of the same affinities and the same initial embedding.
C11_SameSequenceInBothRevisions ==
    [][PassMade =>
          /\ updates = 0 => (Y = Y0 /\ YPrev = Y0)
          /\ YPrev' = Y
          /\ \A v \in {"alloc", "reuse"} :
                \A ref \in {PassesOf(v, n, config, affinities,
                                     FreshLoopState(v, n, config, Y0), 0, updates')} :
                    Y' = ref.Y /\ YPrev' = ref.YPrev]_vars

\* C11: after the first pass over two points the in-place revision has moved
\* the embedding (the allocating revision leaves two points where they are:
\* for two points p_12 = q_12 = 1/2 and its gradient is zero)
C11_InPlaceRevisionMovedTwoPoints ==
    /\ variant = "reuse"
    /\ pc = "loop"
    /\ updates = 1
    /\ n = 2
    /\ YPrev = Y0
    /\ Y # Y0
    /\ \A i \in 1..Len(Y) : IsNumVector(Y[i])

\* a midpoint has been evaluated in the search of the current point
MidpointEvaluated == (pc = "sigmaSearch" /\ j > 0) \/ pc = "sigmaRecord"

\* C12: for every valid input the search of every point starts from a
\* non-empty interval, lower = 1e-3 <= upper; every midpoint evaluated lies
\* in the interval, lower <= sigma <= upper; and the sigma recorded for every
\* point is strictly positive.
C12_SigmaInIntervalAndPositive ==
    /\ (pc = "sigmaSearch" /\ j = 0) =>
          /\ lowerBound = initialLowerBound
          /\ lowerBound <= upperBound
    /\ MidpointEvaluated => (lowerBound <= sigma /\ sigma <= upperBound)
    /\ \A i \in 1..Len(sigmasOut) : sigmasOut[i] > 0
    /\ (Running \/ pc = "returned") => \A i \in 1..Len(sigmas) : sigmas[i] > 0

\* C12: the rows of a valid input are all identical, the search started from
\* an interval whose upper bound is below its lower bound, and a negative
\* sigma was recorded for every point
C12_NegativeSigmaForIdenticalRows ==
    /\ pc = "affinities"
    /\ validateInput(X) = ""
    /\ \A i \in 1..n : Vectors(X)[i] = Vectors(X)[1]
    /\ initialUpperBound < initialLowerBound
    /\ Len(sigmas) = n
    /\ \A i \in 1..n : sigmas[i] < 0

\* the sum over the points of column k of a flat m x nDims array
ColumnSumFlat(buf, m, nDims, k) == RSum(Array([a \in 1..m |-> buf[Idx(a, k, nDims)]]))

\* the sum over the points of coordinate k of an embedding
ColumnSum(Yc, k) == RSum(Array([a \in 1..Len(Yc) |-> Yc[a][k]]))

\* C13: after every pass the gradient of the pass, summed over all points,
\* is zero in every dimension, and the sum over all points of every
\* coordinate of the embedding (N times its centroid) is that of the initial
\* random embedding; so it is for the embedding returned.  Sums are compared
\* where the arithmetic of the model represents them.
C13_GradientSumsToZeroAndCentroidStays ==
    (pc \in {"loop", "returned"} /\ updates >= 1) =>
        \A k \in 1..config.nDims :
            /\ IsNum(ColumnSumFlat(gradient, n, config.nDims, k))
                  => ColumnSumFlat(gradient, n, config.nDims, k) = R(0)
            /\ IsNum(ColumnSum(Y, k)) => ColumnSum(Y, k) = ColumnSum(Y0, k)
            /\ IsNum(ColumnSum(YPrev, k)) => ColumnSum(YPrev, k) = ColumnSum(Y0, k)
            /\ (pc = "returned" /\ IsNum(ColumnSum(result, k)))
                  => ColumnSum(result, k) = ColumnSum(Y0, k)

\* C13: two passes over two points in two dimensions have moved the
\* embedding twice, the second time with a non-zero gradient and a non-zero
\* momentum displacement, the column sums are those of the initial
\* embedding, and every number is represented
C13_MovedTwiceWithGradient ==
    /\ pc = "loop"
    /\ updates = 2
    /\ n = 2
    /\ config.nDims = 2
    /\ \A k \in 1..2 : ColumnSum(Y, k) = ColumnSum(Y0, k)
    /\ IsNumVector(gradient)
    /\ \A a \in 1..n : IsNumVector(Y[a]) /\ IsNumVector(YPrev[a])
    /\ \E g \in 1..Len(gradient) : gradient[g] # R(0)
    /\ YPrev # Y0
    /\ Y # YPrev

====
